---- MODULE Spec2Model ----
(***************************************************************************)
(* A model of the HUD Fair Market Rent store of housing-data-v1: the       *)
(* PostgreSQL schema of backend/db/init.sql (tables areas, rents and       *)
(* aggregations, the views areas_with_rents, pivot_by_state_type and       *)
(* overall_stats) and the db:seed and db:migrate scripts.  A nullable SQL  *)
(* value is a sequence of length at most one: <<>> is NULL and <<v>> is    *)
(* the value v.  Averages are numeric(.,2) and are held in hundredths; the *)
(* median is held in halves.  The columns state_name, created_at and       *)
(* updated_at, which no constraint and no aggregate reads, and the id of   *)
(* an aggregations row are left out of the rows.  sqlstate is the SQLSTATE  *)
(* of the last statement that any session ran, and psql is the place of    *)
(* the psql session that feeds init.sql to the server: 0 when no such      *)
(* session is open, else the number of its next statement.                 *)
(***************************************************************************)
EXTENDS Integers, Sequences, FiniteSets, TLC

VARIABLES objects, areas, rents, aggregations, sqlstate, psql, fmr_data, seedLog, migrateLog, pc

vars == <<objects, areas, rents, aggregations, sqlstate, psql, fmr_data, seedLog, migrateLog, pc>>

(* ---------------------------------------------------------------- bounds *)
\* the most rows of areas, and the size of the pool of their surrogate ids
MaxAreas == 3
\* the most rows of rents
MaxRents == 2
\* the most areas of a store drawn for the median
MedianRents == 5
\* the most areas of a store that a run of seed() finds
SeedStoreAreas == 2

(* ------------------------------------------------------------ SQL values *)
Null == <<>>
Some(v) == <<v>>
IsNull(x) == x = <<>>
Val(x) == x[1]

\* COALESCE(x, d) of init.sql lines 50-54
COALESCE(x, d) == IF IsNull(x) THEN Some(d) ELSE x

\* SQLSTATE codes of PostgreSQL
Ok == "00000"
UndefinedTable == "42P01"
DuplicateTable == "42P07"
StringTooLong == "22001"
NotNullViolation == "23502"
CheckViolation == "23514"
UniqueViolation == "23505"
ForeignKeyViolation == "23503"

(* ----------------------------------------------------- inputs of inserts *)
AreaIds == 1..MaxAreas
\* a rents row can take the id number of its area: one id per area, and MaxRents more
RentIds == AreaIds \cup 1..MaxRents

AreaRow(n, t, s) == [name |-> n, type |-> t, state |-> s]

\* the valid rows, and one row for each way a column is null or out of range
AreaInputs ==
  { AreaRow(Some("A"), t, s) : t \in {Some("metro"), Some("county")}, s \in {Some("CA"), Some("NY")} }
  \cup { AreaRow(Null, Some("metro"), Some("CA")),
         AreaRow(Some("A"), Null, Some("CA")),
         AreaRow(Some("A"), Some("apartment"), Some("CA")),
         AreaRow(Some("A"), Some("metro"), Null),
         AreaRow(Some("A"), Some("metro"), Some("CAL")),
         AreaRow(Some("A"), Some("metro"), Some("CA ")) }

Figures(s, o, t, th, f) ==
  [studio_rent |-> s, one_bedroom_rent |-> o, two_bedroom_rent |-> t,
   three_bedroom_rent |-> th, four_bedroom_rent |-> f]

\* the five rent figures of one record; INTEGER columns accept any integer
FigureInputs ==
  { Figures(Null, Null, Null, Null, Null),
    Figures(Some(800), Some(900), Some(1000), Some(1300), Some(1500)),
    Figures(Null, Some(0), Some(1200), Null, Some(-50)) }

RentInputs ==
  { [area_id |-> Some(i)] @@ f : i \in AreaIds, f \in FigureInputs }
  \cup { [area_id |-> Null] @@ Figures(Null, Null, Null, Null, Null) }

(* ------------------------------------------------------ schema, init.sql *)
Tables == {"areas", "rents", "aggregations"}
Views == {"areas_with_rents", "pivot_by_state_type", "overall_stats"}
Indexes ==
  {"idx_areas_state", "idx_areas_type", "idx_areas_name", "idx_rents_area_id",
   "idx_rents_two_bedroom", "idx_aggregations_state_type"}

\* type VARCHAR(20) NOT NULL, without the CHECK
TypeUnchecked(t) == TRUE

\* type VARCHAR(20) NOT NULL CHECK (type IN ('metro', 'county'))
TypeCheck(t) == IsNull(t) \/ Val(t) \in {"metro", "county"}

RECURSIVE Spaces(_)
Spaces(k) == IF k = 0 THEN "" ELSE " " \o Spaces(k - 1)

\* VARCHAR(n): a longer value is refused, unless the characters after the
\* n-th are all spaces
FitsVarchar(x, n) ==
  \/ IsNull(x)
  \/ Len(Val(x)) <= n
  \/ SubSeq(Val(x), n + 1, Len(Val(x))) = Spaces(Len(Val(x)) - n)

\* the value a VARCHAR(n) column takes: a longer value that is accepted is
\* cut to its first n characters
Varchar(x, n) == IF IsNull(x) \/ Len(Val(x)) <= n THEN x ELSE Some(SubSeq(Val(x), 1, n))

\* the row of areas that is stored for the values of an insert
AreasAssign(row) ==
  [row EXCEPT !.name = Varchar(@, 255), !.type = Varchar(@, 20), !.state = Varchar(@, 2)]

\* the NOT NULL columns of areas
AreasNotNull(row) == ~IsNull(row.name) /\ ~IsNull(row.type) /\ ~IsNull(row.state)

\* the UNIQUE constraints of areas: the primary key alone
AreasUnique(row, tbl) == \A a \in tbl : a.id # row.id

\* SQLSTATE of INSERT INTO areas (name, type, state) VALUES (...)
AreasInsertState(row, tbl) ==
  IF ~(FitsVarchar(row.name, 255) /\ FitsVarchar(row.type, 20) /\ FitsVarchar(row.state, 2))
    THEN StringTooLong
  ELSE IF ~AreasNotNull(AreasAssign(row)) THEN NotNullViolation
  ELSE IF ~TypeCheck(AreasAssign(row).type) THEN CheckViolation
  ELSE IF ~AreasUnique(row, tbl) THEN UniqueViolation
  ELSE Ok

\* a rents table with its primary key alone, without UNIQUE(area_id)
RentsPrimaryKeyOnly(row, tbl) == \A r \in tbl : r.id # row.id

\* UNIQUE(area_id) and the primary key of rents
RentsUnique(row, tbl) == \A r \in tbl : r.id # row.id /\ r.area_id # row.area_id

\* an area_id column without REFERENCES areas(id)
RentsNoForeignKey(row, atbl) == TRUE

\* area_id REFERENCES areas(id)
RentsForeignKey(row, atbl) == \E a \in atbl : a.id = Val(row.area_id)

\* SQLSTATE of INSERT INTO rents (area_id, ...) VALUES (...)
RentsInsertState(row, rtbl, atbl) ==
  IF IsNull(row.area_id) THEN NotNullViolation
  ELSE IF ~RentsUnique(row, rtbl) THEN UniqueViolation
  ELSE IF ~RentsForeignKey(row, atbl) THEN ForeignKeyViolation
  ELSE Ok

\* gen_random_uuid(): a fresh surrogate id.  No statement of the repository
\* reads the value of an id, so one fresh value stands for all of them: the
\* preferred one when it is free, else the least free one
(* ------------------------------------------------------ schema, schema.ts *)
\* areas of schema.ts: name and state are NOT NULL, type has the CHECK only
SchemaTsAreasNotNull(row) == ~IsNull(row.name) /\ ~IsNull(row.state)

SchemaTsAreasInsertState(row, tbl) ==
  IF ~(FitsVarchar(row.name, 255) /\ FitsVarchar(row.type, 20) /\ FitsVarchar(row.state, 2))
    THEN StringTooLong
  ELSE IF ~SchemaTsAreasNotNull(AreasAssign(row)) THEN NotNullViolation
  ELSE IF ~TypeCheck(AreasAssign(row).type) THEN CheckViolation
  ELSE IF ~AreasUnique(row, tbl) THEN UniqueViolation
  ELSE Ok

\* rents of schema.ts: the primary key, area_id NOT NULL REFERENCES areas(id),
\* and no UNIQUE(area_id)
SchemaTsRentsUnique(row, tbl) == \A r \in tbl : r.id # row.id

SchemaTsRentsInsertState(row, rtbl, atbl) ==
  IF IsNull(row.area_id) THEN NotNullViolation
  ELSE IF ~SchemaTsRentsUnique(row, rtbl) THEN UniqueViolation
  ELSE IF ~RentsForeignKey(row, atbl) THEN ForeignKeyViolation
  ELSE Ok

FreshId(pool, used, preferred) ==
  IF preferred \in pool \ used THEN preferred
  ELSE CHOOSE i \in pool \ used : \A j \in pool \ used : i <= j

(* ------------------------------------------------------ views, init.sql *)
\* the rent columns of the row that a LEFT JOIN pairs with an area without rent
NullRent == [id |-> Null, area_id |-> Null] @@ Figures(Null, Null, Null, Null, Null)

\* a row of rents as the right side of a join: its id and area_id are values
JoinRent(r) == [r EXCEPT !.id = Some(r.id)]

\* areas a JOIN rents r ON a.id = r.area_id, without the areas that have no rent
InnerJoin(atbl, rtbl) ==
  { [a |-> a, r |-> JoinRent(r)] : <<a, r>> \in {p \in atbl \X rtbl : p[2].area_id = Some(p[1].id)} }

\* areas a LEFT JOIN rents r ON a.id = r.area_id
LeftJoin(atbl, rtbl) ==
  { [a |-> a, r |-> JoinRent(r)] : <<a, r>> \in {p \in atbl \X rtbl : p[2].area_id = Some(p[1].id)} }
  \cup { [a |-> a, r |-> NullRent] : a \in {x \in atbl : \A r \in rtbl : r.area_id # Some(x.id)} }

\* the view areas_with_rents, one row per joined row
AreaWithRent(j) ==
  [id |-> j.a.id, name |-> j.a.name, type |-> j.a.type, state |-> j.a.state,
   studio_rent |-> COALESCE(j.r.studio_rent, 0),
   one_bedroom_rent |-> COALESCE(j.r.one_bedroom_rent, 0),
   two_bedroom_rent |-> COALESCE(j.r.two_bedroom_rent, 0),
   three_bedroom_rent |-> COALESCE(j.r.three_bedroom_rent, 0),
   four_bedroom_rent |-> COALESCE(j.r.four_bedroom_rent, 0)]

areas_with_rents(atbl, rtbl) == { AreaWithRent(j) : j \in LeftJoin(atbl, rtbl) }

RECURSIVE SumOf(_, _)
\* the sum of column col over a set of joined rows with a value in it
SumOf(rows, col) ==
  IF rows = {} THEN 0
  ELSE LET j == CHOOSE x \in rows : TRUE IN Val(j.r[col]) + SumOf(rows \ {j}, col)

\* the rows an aggregate function reads: those where the column is not null
NonNull(rows, col) == {j \in rows : ~IsNull(j.r[col])}

\* ROUND(n / d, 2) of numeric, in hundredths: half rounds away from zero
Round2(n, d) ==
  IF n >= 0 THEN (200 * n + d) \div (2 * d) ELSE 0 - ((200 * (0 - n) + d) \div (2 * d))

\* ROUND(AVG(COALESCE(r.col, 0))::NUMERIC, 2): a null read as 0
AvgOfCoalesced(rows, col) ==
  IF rows = {} THEN Null
  ELSE Some(Round2(SumOf(NonNull(rows, col), col), Cardinality(rows)))

\* ROUND(AVG(r.col)::NUMERIC, 2), in hundredths
AVG(rows, col) ==
  LET known == NonNull(rows, col)
  IN IF known = {} THEN Null ELSE Some(Round2(SumOf(known, col), Cardinality(known)))

\* MIN(COALESCE(r.col, 0))
MinOfCoalesced(rows, col) ==
  IF rows = {} THEN Null
  ELSE IF NonNull(rows, col) # rows THEN Some(0)
  ELSE Some(Val((CHOOSE j \in rows : \A k \in rows : Val(j.r[col]) <= Val(k.r[col])).r[col]))

\* MIN(r.col)
MIN(rows, col) ==
  LET known == NonNull(rows, col)
  IN IF known = {} THEN Null
     ELSE Some(Val((CHOOSE j \in known : \A k \in known : Val(j.r[col]) <= Val(k.r[col])).r[col]))

\* MAX(r.col)
MAX(rows, col) ==
  LET known == NonNull(rows, col)
  IN IF known = {} THEN Null
     ELSE Some(Val((CHOOSE j \in known : \A k \in known : Val(j.r[col]) >= Val(k.r[col])).r[col]))

\* the collation order of the strings of the model; NULL sorts last
Collation == <<"A", "CA", "CAL", "NY", "apartment", "county", "metro">>
Rank(x) == IF IsNull(x) THEN Len(Collation) + 1 ELSE CHOOSE i \in 1..Len(Collation) : Collation[i] = Val(x)

\* ORDER BY a.type, a.state
TypeThenState(k, l) == Rank(k[2]) < Rank(l[2]) \/ (Rank(k[2]) = Rank(l[2]) /\ Rank(k[1]) < Rank(l[1]))

\* ORDER BY a.state, a.type, on the keys <<state, type>> of two groups
KeyBefore(k, l) == Rank(k[1]) < Rank(l[1]) \/ (Rank(k[1]) = Rank(l[1]) /\ Rank(k[2]) < Rank(l[2]))

\* GROUP BY a.state, a.type
GroupKeys(joined) == { <<j.a.state, j.a.type>> : j \in joined }
Group(joined, key) == { j \in joined : <<j.a.state, j.a.type>> = key }

\* one row of the pivot with COUNT(r.id) in place of COUNT(*)
PivotRowCountingRents(key, rows) ==
  [state |-> key[1], type |-> key[2],
   count |-> Cardinality({j \in rows : ~IsNull(j.r.id)}),
   avg_studio |-> AVG(rows, "studio_rent"),
   avg_one_br |-> AVG(rows, "one_bedroom_rent"),
   avg_two_br |-> AVG(rows, "two_bedroom_rent"),
   avg_three_br |-> AVG(rows, "three_bedroom_rent"),
   avg_four_br |-> AVG(rows, "four_bedroom_rent"),
   min_two_br |-> MIN(rows, "two_bedroom_rent"),
   max_two_br |-> MAX(rows, "two_bedroom_rent")]

\* one row of pivot_by_state_type
PivotRow(key, rows) ==
  [state |-> key[1], type |-> key[2],
   count |-> Cardinality(rows),
   avg_studio |-> AVG(rows, "studio_rent"),
   avg_one_br |-> AVG(rows, "one_bedroom_rent"),
   avg_two_br |-> AVG(rows, "two_bedroom_rent"),
   avg_three_br |-> AVG(rows, "three_bedroom_rent"),
   avg_four_br |-> AVG(rows, "four_bedroom_rent"),
   min_two_br |-> MIN(rows, "two_bedroom_rent"),
   max_two_br |-> MAX(rows, "two_bedroom_rent")]

RECURSIVE Ordered(_)
\* the keys in the order of ORDER BY
Ordered(keys) ==
  IF keys = {} THEN <<>>
  ELSE LET k == CHOOSE x \in keys : \A y \in keys \ {x} : KeyBefore(x, y)
       IN <<k>> \o Ordered(keys \ {k})

\* the view pivot_by_state_type: the sequence of its rows
pivot_by_state_type(atbl, rtbl) ==
  LET joined == LeftJoin(atbl, rtbl)
      keys == Ordered(GroupKeys(joined))
  IN [i \in 1..Len(keys) |-> PivotRow(keys[i], Group(joined, keys[i]))]

RECURSIVE Sorted(_, _)
\* WITHIN GROUP (ORDER BY r.col): the values of the rows, ascending
Sorted(rows, col) ==
  IF rows = {} THEN <<>>
  ELSE LET j == CHOOSE x \in rows : \A y \in rows : Val(x.r[col]) <= Val(y.r[col])
       IN <<Val(j.r[col])>> \o Sorted(rows \ {j}, col)

\* PERCENTILE_DISC(0.5) WITHIN GROUP (ORDER BY r.col), in halves: the first
\* sorted value whose position reaches half of the rows
PERCENTILE_DISC_HALF(rows, col) ==
  LET v == Sorted(NonNull(rows, col), col)
      n == Len(v)
  IN IF n = 0 THEN Null ELSE Some(2 * v[1 + (n - 1) \div 2])

\* PERCENTILE_CONT(0.5) WITHIN GROUP (ORDER BY r.col), in halves: the value at
\* row 1 + (n - 1) / 2 of the n sorted values, interpolated between the rows
\* below and above it
PERCENTILE_CONT_HALF(rows, col) ==
  LET v == Sorted(NonNull(rows, col), col)
      n == Len(v)
  IN IF n = 0 THEN Null ELSE Some(v[1 + (n - 1) \div 2] + v[1 + n \div 2])

\* COUNT(DISTINCT CASE WHEN a.type = t THEN r.area_id END)
CountDistinctRentsOfType(joined, t) ==
  Cardinality({ j.r.area_id : j \in {x \in joined : x.a.type = Some(t)} } \ {Null})

\* COUNT(DISTINCT CASE WHEN a.type = t THEN a.id END)
CountDistinctOfType(joined, t) == Cardinality({ j.a.id : j \in {x \in joined : x.a.type = Some(t)} })

\* the view overall_stats: its one row
overall_stats(atbl, rtbl) ==
  LET joined == LeftJoin(atbl, rtbl)
  IN [total_areas |-> Cardinality({ j.a.id : j \in joined }),
      metro_count |-> CountDistinctOfType(joined, "metro"),
      county_count |-> CountDistinctOfType(joined, "county"),
      min_two_br |-> MIN(joined, "two_bedroom_rent"),
      max_two_br |-> MAX(joined, "two_bedroom_rent"),
      avg_two_br |-> AVG(joined, "two_bedroom_rent"),
      median_two_br |-> PERCENTILE_CONT_HALF(joined, "two_bedroom_rent")]

(* ------------------------------------------------------- fmr_data.json *)
RawArea(n, t, s, f) == [name |-> n, type |-> t, state |-> s] @@ f

\* what the file fmr_data.json can hold: nothing (no file), text that is not
\* JSON, the JSON value null, an object without `areas`, and objects whose
\* `areas` is a list of records
NoFile == [exists |-> FALSE, parses |-> FALSE, object |-> FALSE, areas |-> Null]
NotJson == [exists |-> TRUE, parses |-> FALSE, object |-> FALSE, areas |-> Null]
JsonNull == [exists |-> TRUE, parses |-> TRUE, object |-> FALSE, areas |-> Null]
JsonNoAreas == [exists |-> TRUE, parses |-> TRUE, object |-> TRUE, areas |-> Null]
JsonAreas(list) == [exists |-> TRUE, parses |-> TRUE, object |-> TRUE, areas |-> Some(list)]

FileContents ==
  { NoFile, NotJson, JsonNull, JsonNoAreas,
    JsonAreas(<<RawArea(Some("A"), Some("metro"), Some("CA"), Figures(Some(800), Some(900), Some(1000), Some(1300), Some(1500)))>>),
    JsonAreas(<<RawArea(Some("A"), Some("county"), Some("NY"), Figures(Null, Null, Null, Null, Null)),
                RawArea(Some("A"), Some("apartment"), Some("CA"), Figures(Some(800), Some(900), Some(1000), Some(1300), Some(1500)))>>) }

(* ------------------------------------------------------------------ Init *)
\* an empty database (docker-compose up) and some fmr_data.json in the
\* working directory; nothing has run yet
Init ==
  /\ objects = {}
  /\ areas = {}
  /\ rents = {}
  /\ sqlstate = Ok
  /\ psql = 0
  /\ aggregations = {}
  /\ fmr_data \in FileContents
  /\ seedLog = <<>>
  /\ migrateLog = <<>>
  /\ pc = "idle"

(* ------------------------------------------------------- SQL statements *)
\* the statements of init.sql in the order of the file: what each drops or
\* creates, and the relations a created index or view is defined on
Drop(t) == [op |-> "drop", name |-> t, on |-> {}]
Create(x, ts) == [op |-> "create", name |-> x, on |-> ts]
\* the file with a third DROP TABLE IF EXISTS ... CASCADE, for aggregations
ScriptDroppingAggregations ==
  << Drop("rents"), Drop("areas"), Drop("aggregations"),
     Create("areas", {}),
     Create("idx_areas_state", {"areas"}), Create("idx_areas_type", {"areas"}),
     Create("idx_areas_name", {"areas"}),
     Create("rents", {"areas"}),
     Create("idx_rents_area_id", {"rents"}), Create("idx_rents_two_bedroom", {"rents"}),
     Create("areas_with_rents", {"areas", "rents"}),
     Create("aggregations", {}),
     Create("idx_aggregations_state_type", {"aggregations"}),
     Create("pivot_by_state_type", {"areas", "rents"}),
     Create("overall_stats", {"areas", "rents"}) >>

Script ==
  << Drop("rents"), Drop("areas"),
     Create("areas", {}),
     Create("idx_areas_state", {"areas"}), Create("idx_areas_type", {"areas"}),
     Create("idx_areas_name", {"areas"}),
     Create("rents", {"areas"}),
     Create("idx_rents_area_id", {"rents"}), Create("idx_rents_two_bedroom", {"rents"}),
     Create("areas_with_rents", {"areas", "rents"}),
     Create("aggregations", {}),
     Create("idx_aggregations_state_type", {"aggregations"}),
     Create("pivot_by_state_type", {"areas", "rents"}),
     Create("overall_stats", {"areas", "rents"}) >>

\* the indexes and views that DROP TABLE t CASCADE removes with the table
\* (of a table that references t only the foreign key goes, not the table)
Dependents(t) == { Script[i].name : i \in {j \in DOMAIN Script : t \in Script[j].on} } \ Tables

\* one statement on a database db (its objects, the rows of its tables and
\* the SQLSTATEs of the statements that failed); a DROP TABLE IF EXISTS of a
\* table that does not exist is a notice, not an error
Exec(stmt, db) ==
  IF stmt.op = "drop"
    THEN IF stmt.name \in db.objects
           THEN [db EXCEPT !.objects = @ \ ({stmt.name} \cup Dependents(stmt.name)), ![stmt.name] = {}]
         ELSE db
  ELSE IF stmt.name \in db.objects THEN [db EXCEPT !.errors = Append(@, DuplicateTable)]
  ELSE IF ~(stmt.on \subseteq db.objects) THEN [db EXCEPT !.errors = Append(@, UndefinedTable)]
  ELSE [db EXCEPT !.objects = @ \cup {stmt.name}]

\* the database as a statement finds it
Database ==
  [objects |-> objects, areas |-> areas, rents |-> rents,
   aggregations |-> aggregations, errors |-> <<>>]

\* psql < backend/db/init.sql: psql sends the next statement of the file, and
\* the server commits it by itself (autocommit), so the statements of other
\* sessions fall between two statements of the file; after an error psql
\* goes on to the next statement (ON_ERROR_STOP is not set).  A session
\* that is not open yet starts with the first statement, and the session
\* ends with the last
InitSql ==
  LET k == IF psql = 0 THEN 1 ELSE psql
      db == Exec(Script[k], Database)
  IN /\ objects' = db.objects
     /\ areas' = db.areas
     /\ rents' = db.rents
     /\ aggregations' = db.aggregations
     /\ sqlstate' = IF db.errors = <<>> THEN Ok ELSE db.errors[1]
     /\ psql' = IF k = Len(Script) THEN 0 ELSE k + 1
     /\ seedLog' = <<>>
     /\ migrateLog' = <<>>
     /\ UNCHANGED <<fmr_data, pc>>

\* psql -c "DROP TABLE IF EXISTS rents CASCADE; DROP TABLE IF EXISTS areas
\* CASCADE;" of SETUP.md: the two statements are one command string, which
\* the server runs as one transaction
DropTables ==
  LET db == Exec(Drop("areas"), Exec(Drop("rents"), Database))
  IN /\ objects' = db.objects
     /\ areas' = db.areas
     /\ rents' = db.rents
     /\ sqlstate' = Ok
     /\ seedLog' = <<>>
     /\ migrateLog' = <<>>
     /\ UNCHANGED <<psql, aggregations, fmr_data, pc>>

\* INSERT INTO areas (name, type, state) VALUES (in.name, in.type, in.state)
InsertArea(in) ==
  /\ Cardinality(areas) < MaxAreas
  /\ LET row == [id |-> FreshId(AreaIds, {a.id : a \in areas}, 1)] @@ in
         st == IF "areas" \in objects THEN AreasInsertState(row, areas) ELSE UndefinedTable
     IN /\ sqlstate' = st
        /\ areas' = IF st = Ok THEN areas \cup {AreasAssign(row)} ELSE areas
  /\ seedLog' = <<>>
  /\ migrateLog' = <<>>
  /\ UNCHANGED <<psql, objects, rents, aggregations, fmr_data, pc>>

\* INSERT INTO rents (area_id, studio_rent, ...) VALUES (...)
InsertRent(in) ==
  /\ Cardinality(rents) < MaxRents
  /\ LET row == [id |-> FreshId(RentIds, {r.id : r \in rents}, IF IsNull(in.area_id) THEN 1 ELSE Val(in.area_id))] @@ in
         st == IF "rents" \in objects THEN RentsInsertState(row, rents, areas) ELSE UndefinedTable
     IN /\ sqlstate' = st
        /\ rents' = IF st = Ok THEN rents \cup {row} ELSE rents
  /\ seedLog' = <<>>
  /\ migrateLog' = <<>>
  /\ UNCHANGED <<psql, objects, areas, aggregations, fmr_data, pc>>

\* the rows of rents removed with the area: ON DELETE CASCADE
Cascade(id, rtbl) == {r \in rtbl : r.area_id = Some(id)}

\* DELETE FROM areas WHERE id = :id
DeleteArea(id) ==
  /\ IF "areas" \in objects
       THEN /\ areas' = {a \in areas : a.id # id}
            /\ rents' = rents \ Cascade(id, rents)
            /\ sqlstate' = Ok
     ELSE /\ UNCHANGED <<areas, rents>>
          /\ sqlstate' = UndefinedTable
  /\ seedLog' = <<>>
  /\ migrateLog' = <<>>
  /\ UNCHANGED <<psql, objects, aggregations, fmr_data, pc>>

\* SELECT * FROM view, for one of the three views: no row changes, and the
\* statement ends with 42P01 where the view is not defined
Select(view) ==
  /\ sqlstate' = IF view \in objects THEN Ok ELSE UndefinedTable
  /\ seedLog' = <<>>
  /\ migrateLog' = <<>>
  /\ UNCHANGED <<psql, objects, areas, rents, aggregations, fmr_data, pc>>

(* ------------------------------------------------------------ npm run db:seed *)
\* the outcome of one run of seed(): its exit code and the number of areas
\* it reports as loaded
SeedOutcome(file) ==
  IF ~file.exists THEN [exit |-> 1, loaded |-> Null]
  ELSE IF ~file.parses THEN [exit |-> 1, loaded |-> Null]
  ELSE IF ~file.object THEN [exit |-> 1, loaded |-> Null]
  ELSE IF IsNull(file.areas) THEN [exit |-> 0, loaded |-> Some(0)]
  ELSE [exit |-> 0, loaded |-> Some(Len(Val(file.areas)))]

RECURSIVE InsertEach(_, _)
\* a seed() that loops through the records and inserts each into areas and
\* rents (steps 3 and 4 of the script's closing note), while ids are left
InsertEach(list, store) ==
  IF list = <<>> \/ Cardinality(store.areas) >= MaxAreas \/ Cardinality(store.rents) >= MaxRents
    THEN store
  ELSE LET rec == Head(list)
           aid == FreshId(AreaIds, {a.id : a \in store.areas}, 1)
           rid == FreshId(RentIds, {r.id : r \in store.rents}, aid)
           a == [id |-> aid, name |-> rec.name, type |-> rec.type, state |-> rec.state]
           r == [id |-> rid, area_id |-> Some(aid)]
                  @@ [c \in {"studio_rent", "one_bedroom_rent", "two_bedroom_rent",
                             "three_bedroom_rent", "four_bedroom_rent"} |-> rec[c]]
       IN InsertEach(Tail(list), [areas |-> store.areas \cup {a}, rents |-> store.rents \cup {r}])

SeedInserting(file, store) ==
  IF file.exists /\ file.parses /\ file.object /\ ~IsNull(file.areas)
    THEN InsertEach(Val(file.areas), store)
  ELSE store

\* the store a run of seed() leaves: the one it found (the script opens no
\* connection and issues no statement)
SeedWrites(file, store) == store

\* the last two runs made in succession, each with the store it left
Logged(log, entry) == IF Len(log) < 2 THEN Append(log, entry) ELSE <<log[2], entry>>

Seed ==
  LET after == SeedWrites(fmr_data, [areas |-> areas, rents |-> rents])
  IN /\ areas' = after.areas
     /\ rents' = after.rents
     /\ seedLog' = Logged(seedLog, SeedOutcome(fmr_data) @@ after)
     /\ migrateLog' = <<>>
     /\ UNCHANGED <<psql, objects, aggregations, sqlstate, fmr_data, pc>>

(* --------------------------------------------------------- npm run db:migrate *)
\* the outcome of one run of the migrate script: the import of line 6
\* resolves or not, as the installation has it; when it does, migrate()
\* prints that the migration is complete and returns, and node ends with 0
MigrateOutcome(imported) ==
  IF imported THEN [exit |-> 0, complete |-> TRUE] ELSE [exit |-> 1, complete |-> FALSE]

\* the script issues no statement: the store is as it was
Migrate(imported) ==
  /\ migrateLog' = <<MigrateOutcome(imported)>>
  /\ seedLog' = <<>>
  /\ UNCHANGED <<psql, objects, areas, rents, aggregations, sqlstate, fmr_data, pc>>

\* the rows that clients insert while the scripts run: an area of each
\* kind the file of seed() can hold, and a rent of known figures
ScriptAreaInputs ==
  { AreaRow(Some("A"), Some("metro"), Some("CA")), AreaRow(Some("A"), Some("apartment"), Some("CA")) }
ScriptRentInputs ==
  { [area_id |-> Some(i)] @@ Figures(Some(800), Some(900), Some(1000), Some(1300), Some(1500)) : i \in AreaIds }

Next ==
  \/ InitSql
  \/ DropTables
  \/ \E view \in Views : Select(view)
  \/ \E in \in ScriptAreaInputs : InsertArea(in)
  \/ \E in \in ScriptRentInputs : InsertRent(in)
  \/ \E id \in AreaIds : DeleteArea(id)
  \/ Seed
  \/ \E imported \in BOOLEAN : Migrate(imported)

Spec == Init /\ [][Next]_vars

\* the store under SQL statements alone: seed() issues none, so the store is
\* driven by psql and by whatever client inserts and deletes rows
InitStore == Init /\ fmr_data = NoFile

NextStore ==
  \/ InitSql
  \/ DropTables
  \/ \E view \in Views : Select(view)
  \/ \E in \in AreaInputs : InsertArea(in)
  \/ \E in \in RentInputs : InsertRent(in)
  \/ \E id \in AreaIds : DeleteArea(id)

SpecStore == InitStore /\ [][NextStore]_vars

\* a row of aggregations that holds a row of the pivot: the table has the
\* columns of the view and group_by, the comma-separated grouping columns
AggregationRow(p) ==
  [group_by |-> Some("state,type"), state |-> p.state, type |-> p.type, count |-> Some(p.count),
   avg_studio |-> p.avg_studio, avg_one_br |-> p.avg_one_br, avg_two_br |-> p.avg_two_br,
   avg_three_br |-> p.avg_three_br, avg_four_br |-> p.avg_four_br,
   min_two_br |-> p.min_two_br, max_two_br |-> p.max_two_br]

\* BEGIN; DELETE FROM aggregations; INSERT INTO aggregations (group_by,
\* state, ...) SELECT 'state,type', p.* FROM pivot_by_state_type p; COMMIT:
\* a client precomputes the pivot (no statement of the repository writes
\* the table); without the table or the view the transaction fails
RefreshAggregations ==
  /\ IF "aggregations" \in objects /\ "pivot_by_state_type" \in objects
       THEN /\ LET pivot == pivot_by_state_type(areas, rents)
               IN aggregations' = { AggregationRow(pivot[i]) : i \in DOMAIN pivot }
            /\ sqlstate' = Ok
     ELSE /\ UNCHANGED aggregations
          /\ sqlstate' = UndefinedTable
  /\ seedLog' = <<>>
  /\ migrateLog' = <<>>
  /\ UNCHANGED <<psql, objects, areas, rents, fmr_data, pc>>

\* the store with its table of precomputed pivots, under inserts of valid
\* rows of one state
NextAggregations ==
  \/ InitSql
  \/ DropTables
  \/ \E view \in Views : Select(view)
  \/ \E in \in {x \in AreaInputs : AreasInsertState([id |-> 1] @@ x, {}) = Ok /\ x.state = Some("CA")} : InsertArea(in)
  \/ \E in \in {x \in RentInputs : x.four_bedroom_rent \in {Null, Some(1500)}} : InsertRent(in)
  \/ \E id \in AreaIds : DeleteArea(id)
  \/ RefreshAggregations

SpecAggregations == InitStore /\ [][NextAggregations]_vars

(* ------------------------------------------- npm run db:seed, step by step *)
\* `data.areas || []` and `areas.length` of lines 89-91: reading a property
\* of the JSON value null throws a TypeError; a missing areas is the empty list
DataAreasNoDefault(file) ==
  IF ~file.object \/ IsNull(file.areas) THEN [threw |-> TRUE, length |-> Null]
  ELSE [threw |-> FALSE, length |-> Some(Len(Val(file.areas)))]

DataAreas(file) ==
  IF ~file.object THEN [threw |-> TRUE, length |-> Null]
  ELSE IF IsNull(file.areas) THEN [threw |-> FALSE, length |-> Some(0)]
  ELSE [threw |-> FALSE, length |-> Some(Len(Val(file.areas)))]

\* a client left connected keeps node's event loop alive after seed() returns
EventLoopHeld == "report"

\* where the process is once seed() has returned: nothing is pending (no
\* connection, timer or listener was created), so node ends with code 0
AfterReturn == "exit"

\* the files of a run: those of FileContents and an empty list of areas
SeedFiles == FileContents \cup {JsonAreas(<<>>)}

\* process.exit(code), or the end of the process after seed() returned
Exit(code, length, store) ==
  /\ pc' = "exit"
  /\ seedLog' = Logged(seedLog, [exit |-> code, loaded |-> length] @@ store)

\* npm run db:seed is started
SeedStart ==
  /\ pc \in {"idle", "exit"}
  /\ pc' = "exists"
  /\ UNCHANGED <<psql, objects, areas, rents, aggregations, sqlstate, fmr_data, seedLog, migrateLog>>

\* lines 81-86: fs.existsSync(dataPath), process.exit(1) if not
SeedExists ==
  /\ pc = "exists"
  /\ IF ~fmr_data.exists
       THEN Exit(1, Null, [areas |-> areas, rents |-> rents])
     ELSE pc' = "parse" /\ UNCHANGED seedLog
  /\ UNCHANGED <<psql, objects, areas, rents, aggregations, sqlstate, fmr_data, migrateLog>>

\* line 88: JSON.parse(fs.readFileSync(...)); a SyntaxError goes to the
\* catch of lines 124-127, which ends the process with 1
SeedParse ==
  /\ pc = "parse"
  /\ IF ~fmr_data.parses
       THEN Exit(1, Null, [areas |-> areas, rents |-> rents])
     ELSE pc' = "areas" /\ UNCHANGED seedLog
  /\ UNCHANGED <<psql, objects, areas, rents, aggregations, sqlstate, fmr_data, migrateLog>>

\* lines 89-91: const areas = data.areas || [] and the count that is printed
SeedAreas ==
  /\ pc = "areas"
  /\ IF DataAreas(fmr_data).threw
       THEN Exit(1, Null, [areas |-> areas, rents |-> rents])
     ELSE pc' = "report" /\ UNCHANGED seedLog
  /\ UNCHANGED <<psql, objects, areas, rents, aggregations, sqlstate, fmr_data, migrateLog>>

\* lines 93-122: the instructions are printed and seed() returns
SeedReport ==
  /\ pc = "report"
  /\ LET after == SeedWrites(fmr_data, [areas |-> areas, rents |-> rents])
     IN /\ areas' = after.areas
        /\ rents' = after.rents
        /\ IF AfterReturn = "exit"
             THEN Exit(0, DataAreas(fmr_data).length, after)
           ELSE pc' = AfterReturn /\ UNCHANGED seedLog
  /\ UNCHANGED <<psql, objects, aggregations, sqlstate, fmr_data, migrateLog>>

\* the stores a run finds: no schema, or the schema with areas 1..n, each
\* with a rents row, and the pivot precomputed or not
StoreOf(n, f) ==
  [areas |-> { [id |-> i] @@ AreaRow(Some("A"), Some("metro"), Some("CA")) : i \in 1..n },
   rents |-> { [id |-> i, area_id |-> Some(i)] @@ Figures(Null, Null, f[i], Null, Null) : i \in 1..n }]

InitSeed ==
  /\ pc = "idle"
  /\ fmr_data \in SeedFiles
  /\ seedLog = <<>>
  /\ migrateLog = <<>>
  /\ sqlstate = Ok
  /\ psql = 0
  /\ \/ objects = {} /\ areas = {} /\ rents = {} /\ aggregations = {}
     \/ /\ objects = Tables \cup Views \cup Indexes
        /\ \E n \in 0..SeedStoreAreas : \E f \in [1..n -> {Null, Some(1000), Some(1068)}] :
             /\ areas = StoreOf(n, f).areas
             /\ rents = StoreOf(n, f).rents
             /\ LET pivot == pivot_by_state_type(StoreOf(n, f).areas, StoreOf(n, f).rents)
                IN aggregations \in {{}, { AggregationRow(pivot[i]) : i \in DOMAIN pivot }}

SeedSteps == SeedExists \/ SeedParse \/ SeedAreas \/ SeedReport

NextSeed == SeedStart \/ SeedSteps

\* the process runs until it ends: nothing else has to happen for its next
\* statement to execute
SpecSeed == InitSeed /\ [][NextSeed]_vars /\ WF_vars(SeedSteps)

\* stores for the statistics over the 2BR rent: init.sql has run, and areas
\* 1..n each have a rents row whose 2BR figure is unknown or one of four
\* amounts; areas are then deleted
TwoBrInputs == {Null, Some(473), Some(1000), Some(1068), Some(4054)}

InitMedian ==
  /\ objects = Tables \cup Views \cup Indexes
  /\ sqlstate = Ok
  /\ psql = 0
  /\ aggregations = {}
  /\ fmr_data = NoFile
  /\ seedLog = <<>>
  /\ migrateLog = <<>>
  /\ pc = "idle"
  /\ \E n \in 0..MedianRents : \E f \in [1..n -> TwoBrInputs] :
       /\ areas = { [id |-> i] @@ AreaRow(Some("A"), Some("metro"), Some("CA")) : i \in 1..n }
       /\ rents = { [id |-> i, area_id |-> Some(i)] @@ Figures(Null, Null, f[i], Null, Null) : i \in 1..n }

NextMedian ==
  \/ \E id \in 1..MedianRents : DeleteArea(id)
  \/ \E view \in Views : Select(view)

SpecMedian == InitMedian /\ [][NextMedian]_vars

(* ------------------------------------------------------------ read paths *)
RentCols == {"studio_rent", "one_bedroom_rent", "two_bedroom_rent", "three_bedroom_rent", "four_bedroom_rent"}

\* the average column of the pivot for each rent column
AvgCol(col) ==
  CASE col = "studio_rent" -> "avg_studio"
    [] col = "one_bedroom_rent" -> "avg_one_br"
    [] col = "two_bedroom_rent" -> "avg_two_br"
    [] col = "three_bedroom_rent" -> "avg_three_br"
    [] col = "four_bedroom_rent" -> "avg_four_br"

\* the answer to SELECT * FROM view: its rows, or 42P01 and no result where
\* the view is not defined (before its CREATE VIEW, or after a DROP TABLE
\* ... CASCADE of a table it reads)
Answer(view, result) ==
  IF view \in objects THEN [sqlstate |-> Ok, rows |-> Some(result)]
  ELSE [sqlstate |-> UndefinedTable, rows |-> Null]

\* SELECT * FROM areas_with_rents / pivot_by_state_type / overall_stats over
\* the rows of a store; the result of overall_stats is its one row
ListingOf(store) == Answer("areas_with_rents", areas_with_rents(store.areas, store.rents))
PivotOf(store) == Answer("pivot_by_state_type", pivot_by_state_type(store.areas, store.rents))
StatsOf(store) == Answer("overall_stats", overall_stats(store.areas, store.rents))

Listing == ListingOf([areas |-> areas, rents |-> rents])
Pivot == PivotOf([areas |-> areas, rents |-> rents])
Stats == StatsOf([areas |-> areas, rents |-> rents])

\* the areas of a (state, type) group, and those of them whose rent row holds
\* a value in a column
Members(key) == {a \in areas : <<a.state, a.type>> = key}
HasKnown(a, col) == \E r \in rents : r.area_id = Some(a.id) /\ ~IsNull(r[col])
Known(as, col) == {a \in as : HasKnown(a, col)}
FigureOf(a, col) == Val((CHOOSE r \in rents : r.area_id = Some(a.id) /\ ~IsNull(r[col]))[col])

RECURSIVE Total(_, _)
Total(as, col) ==
  IF as = {} THEN 0
  ELSE LET a == CHOOSE x \in as : TRUE IN FigureOf(a, col) + Total(as \ {a}, col)

Least(as, col) == FigureOf(CHOOSE a \in as : \A b \in as : FigureOf(a, col) <= FigureOf(b, col), col)
Greatest(as, col) == FigureOf(CHOOSE a \in as : \A b \in as : FigureOf(a, col) >= FigureOf(b, col), col)

Abs(x) == IF x >= 0 THEN x ELSE 0 - x

\* h hundredths is n / d to two decimals: the nearest hundredth, and of two
\* equally near ones the one farther from zero
IsMean(h, n, d) ==
  /\ 2 * Abs(h * d - 100 * n) <= d
  /\ 2 * Abs(h * d - 100 * n) = d => Abs(h * d) > Abs(100 * n)

(* ---------------------------------------------------------------- claims *)
\* A claim about what a view returns is a claim about the answers of the
\* view: it is stated of the states where SELECT * FROM the view answers
\* with rows, and says nothing of a SELECT that ends with 42P01.

\* C1: a rent figure that is unknown for an area is never read as 0: for
\* every rents row with NULL in a column, the row of areas_with_rents of its
\* area does not hold 0 in that column.
C1_UnknownNeverReadAsZero ==
  Listing.sqlstate = Ok =>
  \A v \in Val(Listing.rows) : \A r \in rents : \A col \in RentCols :
    (r.area_id = Some(v.id) /\ IsNull(r[col])) => v[col] # Some(0)

\* C2: two runs of the loader in succession on the same fmr_data.json leave
\* the same areas and rents as one run, and the pivot rows and the overall
\* statistics after the second run equal those after the first.
C2_SeedTwiceAsOnce ==
  Len(seedLog) = 2 =>
    /\ seedLog[2].areas = seedLog[1].areas
    /\ seedLog[2].rents = seedLog[1].rents
    /\ PivotOf(seedLog[2]) = PivotOf(seedLog[1])
    /\ StatsOf(seedLog[2]) = StatsOf(seedLog[1])

\* C2 witness: the script has run twice in succession and ended with 0 on a
\* file of one area record, over a store that holds an area and its rent.
C2_Witness ==
  /\ Len(seedLog) = 2
  /\ seedLog[1].exit = 0 /\ seedLog[2].exit = 0
  /\ seedLog[2].loaded = Some(1)
  /\ areas # {} /\ rents # {}
  /\ Pivot.sqlstate = Ok /\ Stats.sqlstate = Ok

\* C3: no two rows of areas have the same identity tuple (name, state, type).
C3_IdentityTupleUnique ==
  \A a \in areas : \A b \in areas :
    (a.name = b.name /\ a.state = b.state /\ a.type = b.type) => a = b

\* C4: every row of areas has a row of rents, in every committed state.
C4_EveryAreaHasRent ==
  \A a \in areas : \E r \in rents : r.area_id = Some(a.id)

\* C5: each area has at most one rents row.
C5_AtMostOneRentPerArea ==
  \A r \in rents : \A q \in rents : r.area_id = q.area_id => r = q

\* C5 witness: an insert of a second rents row for an area was refused with a
\* unique violation, and the area keeps its one row.
C5_Witness ==
  /\ sqlstate = UniqueViolation
  /\ \E a \in areas : Cardinality({r \in rents : r.area_id = Some(a.id)}) = 1

\* C6: every rents row references an areas row that exists.
C6_RentReferencesArea ==
  \A r \in rents : \E a \in areas : r.area_id = Some(a.id)

\* C6 witness: an insert of a rent for an area that does not exist was refused
\* with a foreign-key violation, next to a rent that does reference its area
\* and an id whose area (and rent) are gone.
C6_Witness ==
  /\ sqlstate = ForeignKeyViolation
  /\ rents # {}
  /\ \E i \in AreaIds : \A a \in areas : a.id # i

\* C7: in every pivot row, count is the number of areas of the group, with or
\* without known figures, and for each bedroom size with a known value in the
\* group the average (and for 2BR the minimum and the maximum) is that of
\* exactly the areas of the group with a known value for the size.
C7_PivotOverKnownFigures ==
  LET pivot == Val(Pivot.rows) IN
  Pivot.sqlstate = Ok =>
  \A i \in DOMAIN pivot :
    LET row == pivot[i]
        members == Members(<<row.state, row.type>>)
    IN /\ row.count = Cardinality(members)
       /\ \A col \in RentCols :
            LET known == Known(members, col)
            IN known # {} =>
                 /\ ~IsNull(row[AvgCol(col)])
                 /\ IsMean(Val(row[AvgCol(col)]), Total(known, col), Cardinality(known))
       /\ LET known == Known(members, "two_bedroom_rent")
          IN known # {} =>
               /\ row.min_two_br = Some(Least(known, "two_bedroom_rent"))
               /\ row.max_two_br = Some(Greatest(known, "two_bedroom_rent"))

\* C7 witness: three CA areas with 2BR rents 1000, 1200 and unknown give a
\* pivot row with count 3, average 1100.00, minimum 1000 and maximum 1200.
C7_Witness ==
  LET pivot == Val(Pivot.rows) IN
  Pivot.sqlstate = Ok /\ \E i \in DOMAIN pivot :
    /\ pivot[i].state = Some("CA")
    /\ pivot[i].count = 3
    /\ pivot[i].avg_two_br = Some(110000)
    /\ pivot[i].min_two_br = Some(1000)
    /\ pivot[i].max_two_br = Some(1200)
    /\ Cardinality(Known(Members(<<pivot[i].state, pivot[i].type>>), "two_bedroom_rent")) = 2

\* C8: a pivot row of a group in which no area has a known value for a
\* bedroom size reports that size's average (for 2BR also the minimum and
\* the maximum) as undefined (NULL), not as 0, and the row has its count.
C8_NoKnownFigureIsUndefined ==
  LET pivot == Val(Pivot.rows) IN
  Pivot.sqlstate = Ok =>
  \A key \in { <<a.state, a.type>> : a \in areas } :
    \E i \in DOMAIN pivot :
      LET row == pivot[i]
          members == Members(key)
      IN /\ <<row.state, row.type>> = key
         /\ row.count >= 1
         /\ \A col \in RentCols : Known(members, col) = {} => IsNull(row[AvgCol(col)])
         /\ Known(members, "two_bedroom_rent") = {} =>
              IsNull(row.min_two_br) /\ IsNull(row.max_two_br)

\* C8 witness: a group of two areas, each with a rents row, none with a
\* studio figure and one with a 1BR figure of 0: the row has its count, no
\* studio average, and a 1BR average that is a real 0.
C8_Witness ==
  LET pivot == Val(Pivot.rows) IN
  Pivot.sqlstate = Ok /\ \E i \in DOMAIN pivot :
    LET members == Members(<<pivot[i].state, pivot[i].type>>)
    IN /\ pivot[i].count = 2
       /\ \A a \in members : \E r \in rents : r.area_id = Some(a.id)
       /\ IsNull(pivot[i].avg_studio)
       /\ pivot[i].avg_one_br = Some(0)

\* C9: the pivot has exactly one row per (state, type) that occurs among the
\* areas, none for another combination, in ascending order of state, then type.
C9_OneRowPerGroupInOrder ==
  LET pivot == Val(Pivot.rows) IN
  Pivot.sqlstate = Ok =>
  /\ { <<pivot[i].state, pivot[i].type>> : i \in DOMAIN pivot } = { <<a.state, a.type>> : a \in areas }
  /\ Len(pivot) = Cardinality({ <<a.state, a.type>> : a \in areas })
  /\ \A i \in DOMAIN pivot : \A j \in DOMAIN pivot :
       i < j =>
         \/ Rank(pivot[i].state) < Rank(pivot[j].state)
         \/ pivot[i].state = pivot[j].state /\ Rank(pivot[i].type) < Rank(pivot[j].type)

\* C9 witness: three groups, two of one state with both types and one of the
\* other state.
C9_Witness ==
  LET pivot == Val(Pivot.rows) IN
  /\ Pivot.sqlstate = Ok
  /\ Len(pivot) = 3
  /\ pivot[1].state = Some("CA") /\ pivot[1].type = Some("metro")
  /\ pivot[2].state = Some("NY") /\ pivot[2].type = Some("county")
  /\ pivot[3].state = Some("NY") /\ pivot[3].type = Some("metro")

\* C10: overall_stats reports the number of metro areas and of county areas
\* over all areas, and the minimum, maximum and average of the 2BR rent over
\* exactly the areas whose 2BR rent is known.
C10_OverallStats ==
  LET known == Known(areas, "two_bedroom_rent")
      stats == Val(Stats.rows)
  IN Stats.sqlstate = Ok =>
     /\ stats.metro_count = Cardinality({a \in areas : a.type = Some("metro")})
     /\ stats.county_count = Cardinality({a \in areas : a.type = Some("county")})
     /\ known # {} =>
          /\ stats.min_two_br = Some(Least(known, "two_bedroom_rent"))
          /\ stats.max_two_br = Some(Greatest(known, "two_bedroom_rent"))
          /\ ~IsNull(stats.avg_two_br)
          /\ IsMean(Val(stats.avg_two_br), Total(known, "two_bedroom_rent"), Cardinality(known))

\* C10 witness: metro and county areas, one of them without a rents row, and
\* two known 2BR rents 1000 and 1200.
C10_Witness ==
  LET stats == Val(Stats.rows) IN
  /\ Stats.sqlstate = Ok
  /\ stats.metro_count = 2 /\ stats.county_count = 1
  /\ Cardinality(rents) = 2
  /\ stats.min_two_br = Some(1000) /\ stats.max_two_br = Some(1200)
  /\ stats.avg_two_br = Some(110000)

\* C11: the median 2BR rent of overall_stats is the order statistic of the
\* known 2BR rents: the middle one of them in ascending order when their
\* number is odd, the average of the two central ones when it is even
\* (held in halves: twice the median); unknown figures are not counted.
C11_MedianIsOrderStatistic ==
  LET known == Known(areas, "two_bedroom_rent")
      n == Cardinality(known)
      Fig(a) == FigureOf(a, "two_bedroom_rent")
      Below(v) == Cardinality({a \in known : Fig(a) < v})
      UpTo(v) == Cardinality({a \in known : Fig(a) <= v})
      IsKth(v, k) == Below(v) < k /\ k <= UpTo(v)
      stats == Val(Stats.rows)
  IN (Stats.sqlstate = Ok /\ n > 0) =>
       /\ ~IsNull(stats.median_two_br)
       /\ IF n % 2 = 1
            THEN \E a \in known :
                   /\ IsKth(Fig(a), (n + 1) \div 2)
                   /\ Val(stats.median_two_br) = 2 * Fig(a)
            ELSE \E a \in known : \E b \in known :
                   /\ IsKth(Fig(a), n \div 2)
                   /\ IsKth(Fig(b), n \div 2 + 1)
                   /\ Val(stats.median_two_br) = Fig(a) + Fig(b)

\* C11 witness: after an area was deleted, four areas with 2BR rents 473,
\* 1068, 4054 and one unknown: the median is 1068.
C11_Witness ==
  /\ Cardinality(areas) = 4
  /\ \A a \in areas : a.id # 1
  /\ Cardinality(Known(areas, "two_bedroom_rent")) = 3
  /\ { FigureOf(a, "two_bedroom_rent") : a \in Known(areas, "two_bedroom_rent") } = {473, 1068, 4054}
  /\ Stats.sqlstate = Ok
  /\ Val(Stats.rows).median_two_br = Some(2136)

\* the records of the file that seed() reads, and whether a store holds a
\* record: an areas row with its name, type and state and a rents row of
\* that area with its five figures
Records(file) ==
  IF file.exists /\ file.parses /\ file.object /\ ~IsNull(file.areas) THEN Val(file.areas) ELSE <<>>
ValidKind(rec) == ~IsNull(rec.type) /\ Val(rec.type) \in {"metro", "county"}
Holds(store, rec) ==
  \E a \in store.areas :
    /\ a.name = rec.name /\ a.type = rec.type /\ a.state = rec.state
    /\ \E r \in store.rents :
         r.area_id = Some(a.id) /\ \A col \in RentCols : r[col] = rec[col]

\* C12: after a load, into a store whose tables exist, of a file with a
\* record whose kind is neither metro nor county, that record is not in the
\* store and every record of the file with a valid kind is.
C12_InvalidKindRejected ==
  \A i \in DOMAIN seedLog :
    LET recs == Records(fmr_data) IN
    (Tables \subseteq objects /\ \E k \in DOMAIN recs : ~ValidKind(recs[k])) =>
      \A k \in DOMAIN recs :
        IF ValidKind(recs[k]) THEN Holds(seedLog[i], recs[k]) ELSE ~Holds(seedLog[i], recs[k])

\* C13: a valid record that was loaded (its areas row and its rents row were
\* accepted) reads back through areas_with_rents with the same name, type,
\* state and five figures, an unknown figure as unknown.
C13_RoundTrip ==
  LET listing == Val(Listing.rows) IN
  Listing.sqlstate = Ok =>
  \A a \in areas : \A r \in rents :
    r.area_id = Some(a.id) =>
      \E v \in listing :
        /\ v.id = a.id
        /\ v.name = a.name /\ v.type = a.type /\ v.state = a.state
        /\ \A col \in RentCols : v[col] = r[col]

\* C14: after db:seed has ended with 0 on a file of valid records against a
\* store whose tables exist, areas has as many rows as the file has records
\* and rents has as many rows as areas.
C14_SeedLoadsTheFile ==
  \A i \in DOMAIN seedLog :
    LET recs == Records(fmr_data) IN
    ( /\ seedLog[i].exit = 0
      /\ Tables \subseteq objects
      /\ recs # <<>>
      /\ \A k \in DOMAIN recs : ValidKind(recs[k]) ) =>
      /\ Cardinality(seedLog[i].areas) = Len(recs)
      /\ Cardinality(seedLog[i].rents) = Cardinality(seedLog[i].areas)

\* C15: when db:migrate has reported that the migration is complete, the
\* tables areas, rents and aggregations exist.
C15_MigrationCompleteMeansTables ==
  \A i \in DOMAIN migrateLog : migrateLog[i].complete => Tables \subseteq objects

\* C16: a load into a store whose tables exist ends with 0 only when it
\* succeeded (every valid record of the file is in the store), with 1 when
\* the file cannot be read, and with no code other than 0, 1, 2 and 3.
C16_ExitCodes ==
  \A i \in DOMAIN seedLog :
    LET recs == Records(fmr_data) IN
    /\ seedLog[i].exit \in {0, 1, 2, 3}
    /\ (~fmr_data.exists \/ ~fmr_data.parses) => seedLog[i].exit = 1
    /\ (Tables \subseteq objects /\ seedLog[i].exit = 0) =>
         \A k \in DOMAIN recs : ValidKind(recs[k]) => Holds(seedLog[i], recs[k])

\* C17: every known figure of every rents row is at least 0.
C17_FiguresNonNegative ==
  \A r \in rents : \A col \in RentCols : ~IsNull(r[col]) => Val(r[col]) >= 0

\* C19: in every state the rows of aggregations are the rows computed live
\* by the pivot over areas and rents.
C19_AggregationsEqualLive ==
  LET pivot == Val(Pivot.rows) IN
  ("aggregations" \in objects /\ Pivot.sqlstate = Ok) =>
  aggregations = { AggregationRow(pivot[i]) : i \in DOMAIN pivot }

\* the statement that creates object x, by its number in init.sql
CreatedAt(x) == CHOOSE i \in DOMAIN Script : Script[i].op = "create" /\ Script[i].name = x

\* the psql session is applying init.sql to a store to which the file was
\* applied before: the last table of the file has its index, and the
\* session has not come to the statement that creates it
Reapplying ==
  /\ "idx_aggregations_state_type" \in objects
  /\ psql <= CreatedAt("idx_aggregations_state_type")

\* the next statement of the psql session, and whether the tables it is
\* defined on are there (no other session has dropped them meanwhile)
NextStatement == Script[IF psql = 0 THEN 1 ELSE psql]
Undisturbed == NextStatement.on \subseteq objects

\* C21: init.sql applied to a store to which it was applied before runs
\* every statement without error (and so ends with the three tables and the
\* three views defined anew), as long as no other session drops a table
\* under it.
C21_InitSqlRerunnable ==
  [][ (Reapplying /\ Undisturbed /\ InitSql) => sqlstate' = Ok ]_vars

\* C29: every statement of init.sql, applied to a store to which the file
\* was applied before, leaves every row of aggregations as it was.
C29_ResetKeepsAggregations ==
  [][ ("aggregations" \in objects /\ InitSql) => aggregations' = aggregations ]_vars

\* C29 witness: the script has run again (its CREATE TABLE aggregations was
\* refused) over precomputed rows, which are still there next to empty
\* areas and rents.
C29_Witness ==
  /\ psql = CreatedAt("idx_aggregations_state_type")
  /\ sqlstate = DuplicateTable
  /\ areas = {} /\ rents = {}
  /\ aggregations # {}

\* the last run of seed() that ended
LastRun == seedLog[Len(seedLog)]

\* C22: every run of db:seed that is started ends, whatever fmr_data.json
\* holds, with exit code 0 or 1.
C22_SeedTerminates ==
  (pc = "exists") ~> (pc = "exit" /\ seedLog # <<>> /\ LastRun.exit \in {0, 1})

\* C22 witness: a run on a file of two records has ended with 0 after a run
\* before it.
C22_Witness ==
  /\ pc = "exit"
  /\ Len(seedLog) = 2
  /\ LastRun.exit = 0 /\ LastRun.loaded = Some(2)

\* C23: no step of a run of db:seed changes a row of areas, rents or
\* aggregations.
C23_SeedLeavesStore ==
  [][areas' = areas /\ rents' = rents /\ aggregations' = aggregations]_vars

\* C23 witness: a run on a file of one record has ended with 0 over a store
\* that holds an area, its rent and a precomputed row.
C23_Witness ==
  /\ pc = "exit"
  /\ LastRun.exit = 0 /\ LastRun.loaded = Some(1)
  /\ areas # {} /\ rents # {} /\ aggregations # {}
  /\ LastRun.areas = areas /\ LastRun.rents = rents

\* C24: a file that parses as JSON and has no areas, or an empty list of
\* them, ends the run with 0 and 0 loaded areas; a run ends with 1 only for
\* a missing file or a file that does not parse.
C24_NoAreasIsZeroAreas ==
  (pc = "exit" /\ seedLog # <<>>) =>
    /\ (fmr_data.parses /\ Records(fmr_data) = <<>>) =>
         (LastRun.exit = 0 /\ LastRun.loaded = Some(0))
    /\ LastRun.exit = 1 => (~fmr_data.exists \/ ~fmr_data.parses)

\* C24 as amended: a file that parses as a JSON value other than null and
\* has no areas, or an empty list of them, ends the run with 0 and 0 loaded
\* areas; a run ends with 1 exactly for a missing file, a file that does not
\* parse and the JSON value null.
C24_NoAreasOfNonNullIsZeroAreas ==
  (pc = "exit" /\ seedLog # <<>>) =>
    /\ (fmr_data.parses /\ fmr_data.object /\ Records(fmr_data) = <<>>) =>
         (LastRun.exit = 0 /\ LastRun.loaded = Some(0))
    /\ LastRun.exit = 1 <=> (~fmr_data.exists \/ ~fmr_data.parses \/ ~fmr_data.object)

\* C24 witness: a run on a JSON object without areas has ended with 0 and 0
\* loaded areas.
C24_Witness ==
  /\ pc = "exit"
  /\ fmr_data = JsonNoAreas
  /\ LastRun.exit = 0 /\ LastRun.loaded = Some(0)

\* C25: in every state of the init.sql store, an insert of an areas row or of
\* a rents row is accepted under the constraints of schema.ts exactly when
\* it is accepted under those of init.sql.
C25_SchemaTsAdmitsTheSame ==
  "areas" \in objects =>
    /\ Cardinality(areas) < MaxAreas =>
         \A in \in AreaInputs :
           LET row == [id |-> FreshId(AreaIds, {a.id : a \in areas}, 1)] @@ in
           IN (SchemaTsAreasInsertState(row, areas) = Ok) <=> (AreasInsertState(row, areas) = Ok)
    /\ Cardinality(rents) < MaxRents =>
         \A in \in RentInputs :
           LET row == [id |-> FreshId(RentIds, {r.id : r \in rents},
                                      IF IsNull(in.area_id) THEN 1 ELSE Val(in.area_id))] @@ in
           IN (SchemaTsRentsInsertState(row, rents, areas) = Ok) <=> (RentsInsertState(row, rents, areas) = Ok)

RECURSIVE SumCount(_)
SumCount(rows) == IF rows = <<>> THEN 0 ELSE Head(rows).count + SumCount(Tail(rows))

\* C26: the counts of the rows of pivot_by_state_type add up to the number
\* of areas rows.
C26_PivotCountsAddUp ==
  LET pivot == Val(Pivot.rows) IN Pivot.sqlstate = Ok => SumCount(pivot) = Cardinality(areas)

\* C26 witness: three areas in two groups or more, one of them without a
\* rents row, two with one.
C26_Witness ==
  LET pivot == Val(Pivot.rows) IN
  /\ Pivot.sqlstate = Ok
  /\ Len(pivot) >= 2
  /\ Cardinality(areas) = 3 /\ Cardinality(rents) = 2
  /\ SumCount(pivot) = 3

\* C27: overall_stats reports total_areas = metro_count + county_count, and
\* total_areas is the number of areas rows.
C27_TotalIsMetroPlusCounty ==
  LET stats == Val(Stats.rows) IN
  Stats.sqlstate = Ok =>
  /\ stats.total_areas = stats.metro_count + stats.county_count
  /\ stats.total_areas = Cardinality(areas)

\* C27 witness: a metro area and a county, one of them with a rents row, and
\* an insert of an area of another type that was refused by the CHECK.
C27_Witness ==
  LET stats == Val(Stats.rows) IN
  /\ Stats.sqlstate = Ok
  /\ stats.total_areas = 2 /\ stats.metro_count = 1 /\ stats.county_count = 1
  /\ Cardinality(rents) = 1
  /\ sqlstate = CheckViolation

\* C28: when no area has a known 2BR rent, overall_stats reports the true
\* total, metro and county counts and no minimum, maximum, average or median
\* (NULL, not 0).
C28_StatsWithoutKnownFigure ==
  (Stats.sqlstate = Ok /\ Known(areas, "two_bedroom_rent") = {}) =>
    LET stats == Val(Stats.rows) IN
    /\ stats.total_areas = Cardinality(areas)
    /\ stats.metro_count = Cardinality({a \in areas : a.type = Some("metro")})
    /\ stats.county_count = Cardinality({a \in areas : a.type = Some("county")})
    /\ stats.min_two_br = Null /\ stats.max_two_br = Null
    /\ stats.avg_two_br = Null /\ stats.median_two_br = Null

\* C28 witness: two areas, one with a rents row whose 2BR figure is unknown
\* and one without a rents row.
C28_Witness ==
  /\ Cardinality(areas) = 2 /\ Cardinality(rents) = 1
  /\ Known(areas, "two_bedroom_rent") = {}
  /\ Stats.sqlstate = Ok
  /\ Val(Stats.rows).total_areas = 2
  /\ IsNull(Val(Stats.rows).median_two_br)

\* the steps of a run end as SeedOutcome says the run as a whole does
StepsAgreeWithSeedOutcome ==
  (pc = "exit" /\ seedLog # <<>>) =>
     (LastRun.exit = SeedOutcome(fmr_data).exit /\ LastRun.loaded = SeedOutcome(fmr_data).loaded)

====
